---- MODULE Spec2Model ----
(***************************************************************************)
(* The four dataset validators of pokemon-data.json:                       *)
(*   scripts/verify-pokedex.ts, the moves validator, scripts/verify-types  *)
(*   and the items validator.                                              *)
(* Each reads a JSON file, runs a record validator over every element,     *)
(* writes a report and prints a summary.                                   *)
(*                                                                         *)
(* JavaScript values are modelled as tagged records:                       *)
(*   [t |-> "undefined"], [t |-> "null"], [t |-> "boolean", v |-> b],      *)
(*   [t |-> "number", v |-> lit] with lit one of "0", "7", "NaN",          *)
(*   "Infinity", "-Infinity" (no arithmetic is done on them),              *)
(*   [t |-> "string", v |-> sequence of characters],                       *)
(*   [t |-> "array", v |-> sequence of values],                            *)
(*   [t |-> "object", v |-> function from own keys to values].             *)
(***************************************************************************)
EXTENDS Integers, Sequences, FiniteSets, TLC

VARIABLES
    validator,    \* which of the four programs / record validators is running
    input,        \* SpecValidate: the candidate record handed to the validator
    allowedTypes, \* the moves validator's Set of type names (main, line 105)
    returned,     \* SpecValidate: the validator has returned
    missingKeys,  \* SpecValidate: the list the validator returned
    files,        \* the input files: dataset and (moves only) type list
    pc,           \* position of main()
    data,         \* the value readJson returned for the dataset file
    typeList,     \* moves only: the value readJson returned for the type list
    idx,          \* number of records the loop has consumed
    failures,     \* main's failures array
    report,       \* the report file: sequence of documents written to it
    stdout,       \* console output, one entry per console.log call
    exitCode,     \* process.exitCode (0 unless set), 1 after an uncaught throw
    now           \* the time new Date() reads when the report is built

vars == <<validator, input, allowedTypes, returned, missingKeys, files, pc,
          data, typeList, idx, failures, report, stdout, exitCode, now>>

runVars ==
    <<files, pc, data, typeList, idx, failures, report, stdout, exitCode, now>>

----------------------------------------------------------------------------
(* Bounds of the model *)

\* longest array drawn for an array-valued field
MaxArrLen == 2

\* longest dataset file (number of records) a run is given
MaxRecords == 2

----------------------------------------------------------------------------
(* JavaScript values *)

Undefined == [t |-> "undefined"]
Null == [t |-> "null"]
Bool(b) == [t |-> "boolean", v |-> b]
Num(lit) == [t |-> "number", v |-> lit]
Str(chars) == [t |-> "string", v |-> chars]
Arr(elems) == [t |-> "array", v |-> elems]
Obj(f) == [t |-> "object", v |-> f]

EmptyObj == Obj([k \in {} |-> Null])

\* the typeof operator
TypeOf(x) ==
    IF x.t \in {"null", "array", "object"} THEN "object" ELSE x.t

\* ToBoolean, as used by `!p.name`
Truthy(x) ==
    CASE x.t \in {"undefined", "null"} -> FALSE
      [] x.t = "boolean" -> x.v
      [] x.t = "number" -> x.v \notin {"0", "NaN"}
      [] x.t = "string" -> Len(x.v) > 0
      [] OTHER -> TRUE

\* `key in x` for an object or array x and a key that is no array index
Has(x, key) == x.t = "object" /\ key \in DOMAIN x.v

\* property read x[key]: undefined when the key is absent
Get(x, key) == IF Has(x, key) THEN x.v[key] ELSE Undefined

WhiteSpace == {" ", "\t", "\n"}

\* String.prototype.trim
RECURSIVE TrimStart(_)
TrimStart(s) ==
    IF Len(s) > 0 /\ Head(s) \in WhiteSpace THEN TrimStart(Tail(s)) ELSE s

RECURSIVE TrimEnd(_)
TrimEnd(s) ==
    IF Len(s) > 0 /\ s[Len(s)] \in WhiteSpace
    THEN TrimEnd(SubSeq(s, 1, Len(s) - 1))
    ELSE s

trim(s) == TrimEnd(TrimStart(s))

\* the global isNaN applied to a number
isNaN(x) == x.v = "NaN"

isNonEmptyString(value) ==
    value.t = "string" /\ Len(trim(value.v)) > 0

isNumber(value) ==
    value.t = "number" /\ ~isNaN(value)

isStringArrayNonEmpty(value) ==
    /\ value.t = "array"
    /\ Len(value.v) > 0
    /\ \A i \in 1..Len(value.v) : value.v[i].t = "string"

isStringArray(value) ==
    value.t = "array" /\ \A i \in 1..Len(value.v) : value.v[i].t = "string"

\* Array.prototype.includes on a list of key names
Includes(list, key) == \E i \in 1..Len(list) : list[i] = key

\* the template literal `${container}.${key}`
Dotted(container, key) == container \o "." \o key

\* keys.map(key => `${container}.${key}`)
DottedAll(container, keys) == [i \in 1..Len(keys) |-> Dotted(container, keys[i])]

----------------------------------------------------------------------------
(* Required-key tables *)

REQUIRED_POKEMON_KEYS ==
    <<"id", "name", "type", "base", "species", "description", "evolution", "profile">>
REQUIRED_NAME_KEYS_POKEDEX == <<"english", "japanese", "chinese", "french">>
REQUIRED_BASE_KEYS ==
    <<"HP", "Attack", "Defense", "Sp. Attack", "Sp. Defense", "Speed">>
REQUIRED_PROFILE_KEYS == <<"height", "weight", "egg", "ability", "gender">>

REQUIRED_MOVE_KEYS ==
    <<"id", "name", "type", "category", "pp", "power", "accuracy">>
REQUIRED_NAME_KEYS_MOVES == <<"english", "japanese", "french", "chinese">>

REQUIRED_ITEM_KEYS == <<"id", "name", "type", "description">>
REQUIRED_NAME_KEYS_ITEMS == <<"english", "japanese", "chinese">>

REQUIRED_TYPE_KEYS ==
    <<"english", "chinese", "japanese", "effective", "ineffective", "no_effect">>

----------------------------------------------------------------------------
(* Building blocks shared by the four record validators *)

\* the early-return test: typeof x !== 'object' || x === null
NotAnObject(x) == TypeOf(x) # "object" \/ x.t = "null"

MissingTopLevelSkipsFirst(p, keys) == SelectSeq(Tail(keys), LAMBDA key : ~Has(p, key))

\* "Check top-level required keys": push every key that is not in the record
MissingTopLevel(p, keys) == SelectSeq(keys, LAMBDA key : ~Has(p, key))

PushAlways(list, key) == Append(list, key)

\* if (!missingKeys.includes(k)) missingKeys.push(k)
PushIfNotIncluded(list, key) ==
    IF Includes(list, key) THEN list ELSE Append(list, key)

\* the container test: !(k in p) || !p[k] || typeof p[k] !== 'object' || p[k] === null
NotAContainer(p, key) ==
    \/ ~Has(p, key)
    \/ ~Truthy(Get(p, key))
    \/ TypeOf(Get(p, key)) # "object"
    \/ Get(p, key).t = "null"

IsArray(value) == value.t = "array"

\* the shape test a check applies to a field's value
Satisfies(kind, value) ==
    CASE kind = "number" -> isNumber(value)
      [] kind = "nonEmptyString" -> isNonEmptyString(value)
      [] kind = "stringArray" -> isStringArray(value)
      [] kind = "nonEmptyStringArray" -> isStringArray(value) /\ Len(value.v) # 0
      [] kind = "array" -> IsArray(value)

\* a field with a shape test: if (!(k in p) || !ok(p[k])) push-if-not-included
CheckField(p, list, key, kind) ==
    IF ~Has(p, key) \/ ~Satisfies(kind, Get(p, key))
    THEN PushIfNotIncluded(list, key)
    ELSE list

\* a field that only has to be a non-null object (name, base, evolution, profile)
CheckContainer(p, list, key) ==
    IF NotAContainer(p, key) THEN PushIfNotIncluded(list, key) ELSE list

\* the sub-field loop: for (key of keys) if (!(key in c) || !ok(c[key])) push `c.key`
SubFieldFailures(c, container, keys, kind) ==
    DottedAll(container,
              SelectSeq(keys, LAMBDA key : ~Has(c, key) \/ ~Satisfies(kind, Get(c, key))))

\* the name check as it would be if a failing sub-field also reported "name"
CheckNameReportsContainerToo(p, list, keys) ==
    IF NotAContainer(p, "name")
    THEN PushIfNotIncluded(list, "name")
    ELSE LET sub == SubFieldFailures(Get(p, "name"), "name", keys, "nonEmptyString")
         IN  IF sub = <<>> THEN list ELSE PushIfNotIncluded(list, "name") \o sub

\* "Check name object and its required keys"
CheckName(p, list, keys) ==
    IF NotAContainer(p, "name")
    THEN PushIfNotIncluded(list, "name")
    ELSE list \o SubFieldFailures(Get(p, "name"), "name", keys, "nonEmptyString")

----------------------------------------------------------------------------
(* scripts/verify-pokedex.ts *)

\* a profile sub-field: if (!(k in profile) || !ok(profile[k])) push-if-not-included
CheckProfileField(profile, list, key, kind) ==
    IF ~Has(profile, key) \/ ~Satisfies(kind, Get(profile, key))
    THEN PushIfNotIncluded(list, Dotted("profile", key))
    ELSE list

\* "Check base stats"
CheckBase(p, list) ==
    IF NotAContainer(p, "base")
    THEN PushIfNotIncluded(list, "base")
    ELSE list \o SubFieldFailures(Get(p, "base"), "base", REQUIRED_BASE_KEYS, "number")

\* "Check profile"
CheckProfile(p, list) ==
    IF NotAContainer(p, "profile")
    THEN PushIfNotIncluded(list, "profile")
    ELSE LET profile == Get(p, "profile")
             f0 == list \o DottedAll("profile",
                                      MissingTopLevel(profile, REQUIRED_PROFILE_KEYS))
             f1 == CheckProfileField(profile, f0, "height", "nonEmptyString")
             f2 == CheckProfileField(profile, f1, "weight", "nonEmptyString")
             f3 == CheckProfileField(profile, f2, "egg", "stringArray")
             f4 == CheckProfileField(profile, f3, "ability", "array")
             f5 == CheckProfileField(profile, f4, "gender", "nonEmptyString")
         IN  f5

validatePokemonProfileFirst(pokemon) ==
    IF NotAnObject(pokemon)
    THEN REQUIRED_POKEMON_KEYS
    ELSE LET m0 == MissingTopLevel(pokemon, REQUIRED_POKEMON_KEYS)
             m1 == CheckField(pokemon, m0, "id", "number")
             m2 == CheckName(pokemon, m1, REQUIRED_NAME_KEYS_POKEDEX)
             m3 == CheckField(pokemon, m2, "type", "nonEmptyStringArray")
             m4 == CheckProfile(pokemon, m3)
             m5 == CheckField(pokemon, m4, "species", "nonEmptyString")
             m6 == CheckField(pokemon, m5, "description", "nonEmptyString")
             m7 == CheckContainer(pokemon, m6, "evolution")
             m8 == CheckBase(pokemon, m7)
         IN  m8

validatePokemon(pokemon) ==
    IF NotAnObject(pokemon)
    THEN REQUIRED_POKEMON_KEYS
    ELSE LET m0 == MissingTopLevel(pokemon, REQUIRED_POKEMON_KEYS)
             m1 == CheckField(pokemon, m0, "id", "number")
             m2 == CheckName(pokemon, m1, REQUIRED_NAME_KEYS_POKEDEX)
             m3 == CheckField(pokemon, m2, "type", "nonEmptyStringArray")
             m4 == CheckBase(pokemon, m3)
             m5 == CheckField(pokemon, m4, "species", "nonEmptyString")
             m6 == CheckField(pokemon, m5, "description", "nonEmptyString")
             m7 == CheckContainer(pokemon, m6, "evolution")
             m8 == CheckProfile(pokemon, m7)
         IN  m8

----------------------------------------------------------------------------
(* the moves validator *)

\* the validator as it would be with the allow-list applied to the type field
validateMoveTypeChecked(move, allowed) ==
    IF NotAnObject(move)
    THEN REQUIRED_MOVE_KEYS
    ELSE LET m0 == MissingTopLevel(move, REQUIRED_MOVE_KEYS)
             m1 == CheckField(move, m0, "id", "nonEmptyString")
             m2 == CheckName(move, m1, REQUIRED_NAME_KEYS_MOVES)
             m3 == IF ~Has(move, "type") \/ ~isNonEmptyString(Get(move, "type"))
                      \/ Get(move, "type") \notin allowed
                   THEN PushIfNotIncluded(m2, "type")
                   ELSE m2
             m4 == CheckField(move, m3, "category", "nonEmptyString")
             m5 == CheckField(move, m4, "pp", "nonEmptyString")
             m6 == CheckField(move, m5, "power", "nonEmptyString")
             m7 == CheckField(move, m6, "accuracy", "nonEmptyString")
         IN  m7

\* validateMove(move, allowedTypes): the second parameter is never read
validateMove(move, allowed) ==
    IF NotAnObject(move)
    THEN REQUIRED_MOVE_KEYS
    ELSE LET m0 == MissingTopLevel(move, REQUIRED_MOVE_KEYS)
             m1 == CheckField(move, m0, "id", "nonEmptyString")
             m2 == CheckName(move, m1, REQUIRED_NAME_KEYS_MOVES)
             m3 == CheckField(move, m2, "type", "nonEmptyString")
             m4 == CheckField(move, m3, "category", "nonEmptyString")
             m5 == CheckField(move, m4, "pp", "nonEmptyString")
             m6 == CheckField(move, m5, "power", "nonEmptyString")
             m7 == CheckField(move, m6, "accuracy", "nonEmptyString")
         IN  m7

----------------------------------------------------------------------------
(* scripts/verify-types.ts: the type validator and the items validator *)

validateType(type) ==
    IF NotAnObject(type)
    THEN REQUIRED_TYPE_KEYS
    ELSE LET m0 == MissingTopLevel(type, REQUIRED_TYPE_KEYS)
             m1 == CheckField(type, m0, "english", "nonEmptyString")
             m2 == CheckField(type, m1, "chinese", "nonEmptyString")
             m3 == CheckField(type, m2, "japanese", "nonEmptyString")
             m4 == CheckField(type, m3, "effective", "stringArray")
             m5 == CheckField(type, m4, "ineffective", "stringArray")
             m6 == CheckField(type, m5, "no_effect", "stringArray")
         IN  m6

validateItem(item) ==
    IF NotAnObject(item)
    THEN REQUIRED_ITEM_KEYS
    ELSE LET m0 == MissingTopLevel(item, REQUIRED_ITEM_KEYS)
             m1 == CheckField(item, m0, "id", "number")
             m2 == CheckName(item, m1, REQUIRED_NAME_KEYS_ITEMS)
             m3 == CheckField(item, m2, "type", "nonEmptyString")
             m4 == CheckField(item, m3, "description", "nonEmptyString")
         IN  m4

\* the record validator each program's main calls
Validate(which, record, allowed) ==
    CASE which = "pokedex" -> validatePokemon(record)
      [] which = "moves" -> validateMove(record, allowed)
      [] which = "items" -> validateItem(record)
      [] which = "types" -> validateType(record)

RequiredKeys(which) ==
    CASE which = "pokedex" -> REQUIRED_POKEMON_KEYS
      [] which = "moves" -> REQUIRED_MOVE_KEYS
      [] which = "items" -> REQUIRED_ITEM_KEYS
      [] which = "types" -> REQUIRED_TYPE_KEYS

Validators == {"pokedex", "moves", "items", "types"}

----------------------------------------------------------------------------
(* Candidate records: what JSON.parse can hand to a validator, and NaN *)

A == Str(<<"a">>)
PaddedA == Str(<<" ", "a", "\t">>)
Blank == Str(<<" ", "\t">>)
Empty == Str(<<>>)
Seven == Num("7")
Zero == Num("0")
NaN == Num("NaN")
Infinity == Num("Infinity")

\* an [ability-name, is-hidden-flag] pair
Pair == Arr(<<A, Str(<<"t", "r", "u", "e">>)>>)

\* what an array of the pool can hold
Elems == {A, Seven, Pair}

RECURSIVE SeqsUpTo(_, _)
SeqsUpTo(S, n) ==
    IF n = 0
    THEN {<<>>}
    ELSE LET shorter == SeqsUpTo(S, n - 1)
         IN  shorter \cup {Append(q, e) : q \in {r \in shorter : Len(r) = n - 1}, e \in S}

\* every array of at most MaxArrLen elements
Arrays == {Arr(q) : q \in SeqsUpTo(Elems, MaxArrLen)}

\* two arrays, for fields that are not array-valued
SomeArrays == {Arr(<<>>), Arr(<<A>>)}

Scalars ==
    {Null, Bool(TRUE), Zero, Seven, NaN, Infinity, Num("-Infinity"),
     Empty, Blank, A, PaddedA, EmptyObj}

\* the values that are not plain records
NonRecords == (Scalars \ {EmptyObj}) \cup Arrays

\* a key left out of its object
Absent == [t |-> "absent"]

Set(o, key, value) ==
    Obj([k \in DOMAIN o.v \cup {key} |-> IF k = key THEN value ELSE o.v[k]])

Remove(o, key) == Obj([k \in DOMAIN o.v \ {key} |-> o.v[k]])

Put(o, key, value) ==
    IF value = Absent THEN Remove(o, key) ELSE Set(o, key, value)

\* an edit replaces or removes one field; container "" is the record itself
ApplyEdit(rec, e) ==
    IF e.c = ""
    THEN Put(rec, e.k, e.val)
    ELSE IF Has(rec, e.c) /\ Get(rec, e.c).t = "object"
         THEN Set(rec, e.c, Put(Get(rec, e.c), e.k, e.val))
         ELSE rec

Range(list) == {list[i] : i \in 1..Len(list)}

FromKeys(keys, value) == Obj([k \in Range(keys) |-> value])

ConformingPokemon ==
    Obj([k \in Range(REQUIRED_POKEMON_KEYS) |->
            CASE k = "id" -> Seven
              [] k = "name" -> FromKeys(REQUIRED_NAME_KEYS_POKEDEX, A)
              [] k = "type" -> Arr(<<A>>)
              [] k = "base" -> FromKeys(REQUIRED_BASE_KEYS, Seven)
              [] k = "species" -> A
              [] k = "description" -> A
              [] k = "evolution" -> EmptyObj
              [] k = "profile" ->
                    Obj([j \in Range(REQUIRED_PROFILE_KEYS) |->
                            CASE j \in {"height", "weight", "gender"} -> A
                              [] j = "egg" -> Arr(<<A>>)
                              [] j = "ability" -> Arr(<<Pair>>)])])

ConformingMove ==
    Obj([k \in Range(REQUIRED_MOVE_KEYS) |->
            IF k = "name" THEN FromKeys(REQUIRED_NAME_KEYS_MOVES, A)
            ELSE IF k = "category"
                 THEN Str(<<"S", "t", "a", "t", "u", "s">>)
                 ELSE A])

ConformingItem ==
    Obj([k \in Range(REQUIRED_ITEM_KEYS) |->
            CASE k = "id" -> Seven
              [] k = "name" -> FromKeys(REQUIRED_NAME_KEYS_ITEMS, A)
              [] OTHER -> A])

ConformingType ==
    Obj([k \in Range(REQUIRED_TYPE_KEYS) |->
            IF k \in {"english", "chinese", "japanese"} THEN A ELSE Arr(<<A>>)])

Conforming(which) ==
    CASE which = "pokedex" -> ConformingPokemon
      [] which = "moves" -> ConformingMove
      [] which = "items" -> ConformingItem
      [] which = "types" -> ConformingType

\* the fields whose declared type is an array
ArrayFields(which) ==
    CASE which = "pokedex" -> {<<"", "type">>, <<"profile", "egg">>, <<"profile", "ability">>}
      [] which = "types" -> {<<"", "effective">>, <<"", "ineffective">>, <<"", "no_effect">>}
      [] OTHER -> {}

\* every field of a record, as <<container, key>>
Fields(which) ==
    LET rec == Conforming(which)
    IN  {<<"", k>> : k \in DOMAIN rec.v}
        \cup UNION {{<<c, k>> : k \in DOMAIN rec.v[c].v} :
                      c \in {c \in DOMAIN rec.v : rec.v[c].t = "object"}}

\* the category strings the moves dataset also uses
Categories ==
    {Str(<<"P", "h", "y", "s", "i", "c", "a", "l">>),
     Str(<<"S", "p", "e", "c", "i", "a", "l">>),
     Str(<<"S", "t", "a", "t", "u", "s">>),
     Str(<<"?", "?", "?">>)}

Pool(which, f) ==
    Scalars \cup {Absent}
    \cup (IF f \in ArrayFields(which) THEN Arrays ELSE SomeArrays)
    \cup (IF which = "moves" /\ f = <<"", "category">> THEN Categories ELSE {})

Edits(which) ==
    UNION {{[c |-> f[1], k |-> f[2], val |-> x] : x \in Pool(which, f)} :
              f \in Fields(which)}

\* the records within two edits of a conforming one, and the non-records
Inputs(which) ==
    {ApplyEdit(ApplyEdit(Conforming(which), e1), e2) :
        e1 \in Edits(which), e2 \in Edits(which)}
    \cup NonRecords

TypeNames == {A, Str(<<"b">>)}

----------------------------------------------------------------------------
(* SpecValidate: one call of a record validator on one candidate record *)

Idle ==
    /\ files = <<>>
    /\ pc = "idle"
    /\ data = Undefined
    /\ typeList = Undefined
    /\ idx = 0
    /\ failures = <<>>
    /\ report = <<>>
    /\ stdout = <<>>
    /\ exitCode = 0
    /\ now = 0

InitValidate ==
    /\ validator \in Validators
    /\ input \in Inputs(validator)
    /\ allowedTypes \in (IF validator = "moves" THEN SUBSET TypeNames ELSE {{}})
    /\ returned = FALSE
    /\ missingKeys = <<>>
    /\ Idle

\* const missingKeys = validatePokemon(pokemon)
CallValidatePokemon ==
    /\ validator = "pokedex"
    /\ ~returned
    /\ missingKeys' = validatePokemon(input)
    /\ returned' = TRUE
    /\ UNCHANGED <<validator, input, allowedTypes, runVars>>

\* const missingKeys = validateMove(move, allowedTypes)
CallValidateMove ==
    /\ validator = "moves"
    /\ ~returned
    /\ missingKeys' = validateMove(input, allowedTypes)
    /\ returned' = TRUE
    /\ UNCHANGED <<validator, input, allowedTypes, runVars>>

\* const missingKeys = validateItem(item)
CallValidateItem ==
    /\ validator = "items"
    /\ ~returned
    /\ missingKeys' = validateItem(input)
    /\ returned' = TRUE
    /\ UNCHANGED <<validator, input, allowedTypes, runVars>>

\* const missingKeys = validateType(type)
CallValidateType ==
    /\ validator = "types"
    /\ ~returned
    /\ missingKeys' = validateType(input)
    /\ returned' = TRUE
    /\ UNCHANGED <<validator, input, allowedTypes, runVars>>

NextValidate ==
    \/ CallValidatePokemon
    \/ CallValidateMove
    \/ CallValidateItem
    \/ CallValidateType

SpecValidate == InitValidate /\ [][NextValidate]_vars

----------------------------------------------------------------------------
(* The record shapes of the data model (the declared types) *)

IsPlainObject(x) == x.t = "object"

IsFiniteNumber(x) ==
    x.t = "number" /\ x.v \notin {"NaN", "Infinity", "-Infinity"}

IsText(x) == x.t = "string" /\ \E i \in 1..Len(x.v) : x.v[i] \notin WhiteSpace

IsString(x) == x.t = "string"

\* [string, string]
IsStringPair(x) ==
    x.t = "array" /\ Len(x.v) = 2 /\ x.v[1].t = "string" /\ x.v[2].t = "string"

\* string[]
IsStringList(x) == x.t = "array" /\ \A i \in 1..Len(x.v) : IsString(x.v[i])

\* Array<[string, string]>
IsPairList(x) == x.t = "array" /\ \A i \in 1..Len(x.v) : IsStringPair(x.v[i])

\* a number that is not NaN
IsNumberValue(x) == x.t = "number" /\ x.v # "NaN"

Fits(shape, x) ==
    CASE shape = "finite number" -> IsFiniteNumber(x)
      [] shape = "number" -> IsNumberValue(x)
      [] shape = "text" -> IsText(x)
      [] shape = "strings" -> IsStringList(x)
      [] shape = "some strings" -> IsStringList(x) /\ Len(x.v) > 0
      [] shape = "pairs" -> IsPairList(x)
      [] shape = "array" -> x.t = "array"
      [] shape = "object" -> IsPlainObject(x)
      [] shape = "category" -> x \in Categories

\* x is an object that has every key, each with a value of the shape
HasAll(x, keys, shape) ==
    IsPlainObject(x) /\ \A k \in Range(keys) : k \in DOMAIN x.v /\ Fits(shape, x.v[k])

\* interface Evolution { prev?: [string, string]; next?: Array<[string, string]> }
IsEvolution(x) ==
    /\ IsPlainObject(x)
    /\ "prev" \in DOMAIN x.v => IsStringPair(x.v["prev"])
    /\ "next" \in DOMAIN x.v => IsPairList(x.v["next"])

\* interface Profile
IsProfile(x) ==
    /\ HasAll(x, <<"height", "weight", "gender">>, "text")
    /\ HasAll(x, <<"egg">>, "strings")
    /\ HasAll(x, <<"ability">>, "pairs")

\* interface Pokemon
ConformsPokemon(x) ==
    /\ HasAll(x, <<"id">>, "finite number")
    /\ HasAll(Get(x, "name"), REQUIRED_NAME_KEYS_POKEDEX, "text")
    /\ HasAll(x, <<"type">>, "some strings")
    /\ HasAll(Get(x, "base"), REQUIRED_BASE_KEYS, "finite number")
    /\ HasAll(x, <<"species", "description">>, "text")
    /\ IsEvolution(Get(x, "evolution"))
    /\ IsProfile(Get(x, "profile"))

\* interface Move
ConformsMove(x) ==
    /\ HasAll(x, <<"id", "type", "pp", "power", "accuracy">>, "text")
    /\ HasAll(Get(x, "name"), REQUIRED_NAME_KEYS_MOVES, "text")
    /\ HasAll(x, <<"category">>, "category")

\* interface Item
ConformsItem(x) ==
    /\ HasAll(x, <<"id">>, "finite number")
    /\ HasAll(Get(x, "name"), REQUIRED_NAME_KEYS_ITEMS, "text")
    /\ HasAll(x, <<"type", "description">>, "text")

\* the type record of the data model
ConformsType(x) ==
    /\ HasAll(x, <<"english", "chinese", "japanese">>, "text")
    /\ HasAll(x, <<"effective", "ineffective", "no_effect">>, "strings")

Conforms(which, x) ==
    CASE which = "pokedex" -> ConformsPokemon(x)
      [] which = "moves" -> ConformsMove(x)
      [] which = "items" -> ConformsItem(x)
      [] which = "types" -> ConformsType(x)

----------------------------------------------------------------------------
(* Shapes as the validators' contract words them: non-empty trimmed       *)
(* strings, numbers, arrays of strings, objects                            *)

WellShapedPokemon(x) ==
    /\ HasAll(x, <<"id">>, "number")
    /\ HasAll(Get(x, "name"), REQUIRED_NAME_KEYS_POKEDEX, "text")
    /\ HasAll(x, <<"type">>, "some strings")
    /\ HasAll(Get(x, "base"), REQUIRED_BASE_KEYS, "number")
    /\ HasAll(x, <<"species", "description">>, "text")
    /\ HasAll(x, <<"evolution">>, "object")
    /\ HasAll(Get(x, "profile"), <<"height", "weight", "gender">>, "text")
    /\ HasAll(Get(x, "profile"), <<"egg">>, "strings")
    /\ HasAll(Get(x, "profile"), <<"ability">>, "array")

WellShapedMove(x) ==
    /\ HasAll(x, <<"id", "type", "category", "pp", "power", "accuracy">>, "text")
    /\ HasAll(Get(x, "name"), REQUIRED_NAME_KEYS_MOVES, "text")

WellShapedItem(x) ==
    /\ HasAll(x, <<"id">>, "number")
    /\ HasAll(Get(x, "name"), REQUIRED_NAME_KEYS_ITEMS, "text")
    /\ HasAll(x, <<"type", "description">>, "text")

WellShapedType(x) ==
    /\ HasAll(x, <<"english", "chinese", "japanese">>, "text")
    /\ HasAll(x, <<"effective", "ineffective", "no_effect">>, "strings")

WellShaped(which, x) ==
    CASE which = "pokedex" -> WellShapedPokemon(x)
      [] which = "moves" -> WellShapedMove(x)
      [] which = "items" -> WellShapedItem(x)
      [] which = "types" -> WellShapedType(x)

----------------------------------------------------------------------------
(* Claims about the record validators, checked under SpecValidate *)

\* a Pokemon record that conforms except that profile.gender is absent and
\* base.Speed is a string
C1_Record(x) ==
    /\ IsPlainObject(x)
    /\ Has(x, "profile") /\ IsPlainObject(Get(x, "profile"))
    /\ ~Has(Get(x, "profile"), "gender")
    /\ Has(x, "base") /\ IsPlainObject(Get(x, "base"))
    /\ Get(Get(x, "base"), "Speed").t = "string"
    /\ ConformsPokemon(Set(Set(x, "profile", Set(Get(x, "profile"), "gender", A)),
                           "base", Set(Get(x, "base"), "Speed", Seven)))

C1_Case == returned /\ validator = "pokedex" /\ C1_Record(input)

\* C1 as stated: for a Pokemon record missing profile.gender and with a string
\* base.Speed, validatePokemon returns ["profile.gender", "base.Speed"]
C1_ProfileGenderThenBaseSpeed ==
    C1_Case => missingKeys = <<"profile.gender", "base.Speed">>

\* C1 amended: for such a record validatePokemon returns exactly
\* ["base.Speed", "profile.gender"]: base is checked before profile
C1_BaseSpeedThenProfileGender ==
    C1_Case => missingKeys = <<"base.Speed", "profile.gender">>

C1_Witness == C1_Case /\ Len(missingKeys) = 2

\* C2: for an input that is not a plain record (null, a string, a number, an
\* array) each validator returns exactly its top-level required keys, each
\* once, in declared order
C2_NonRecordsGetAllTopLevelKeys ==
    (returned /\ ~IsPlainObject(input)) => missingKeys = RequiredKeys(validator)

C2_Witness ==
    /\ returned
    /\ input.t = "array"
    /\ Len(input.v) > 0
    /\ missingKeys = RequiredKeys(validator)

\* C3: the list a validator returns has no duplicate entries
C3_NoDuplicates ==
    returned =>
        \A i, j \in 1..Len(missingKeys) : missingKeys[i] = missingKeys[j] => i = j

\* a record with a top-level key absent, and a profile with a sub-field absent
C3_Witness ==
    /\ returned
    /\ validator = "pokedex"
    /\ IsPlainObject(input)
    /\ ~Has(input, "species")
    /\ IsPlainObject(Get(input, "profile"))
    /\ ~Has(Get(input, "profile"), "egg")
    /\ Includes(missingKeys, "species")
    /\ Includes(missingKeys, "profile.egg")

\* C4: whenever a validator returns the empty list, the record conforms to
\* its dataset's record shape (a move's category is one of the enumeration,
\* a Pokemon's profile.ability holds [name, flag] pairs)
C4_EmptyListMeansConforming ==
    (returned /\ missingKeys = <<>>) => Conforms(validator, input)

\* C5: a record whose required fields and sub-fields are all present with
\* the correct shape gets the empty list, for all four validators
C5_WellShapedGetsEmptyList ==
    (returned /\ WellShaped(validator, input)) => missingKeys = <<>>

C5_Witness ==
    /\ returned
    /\ WellShaped(validator, input)
    /\ input # Conforming(validator)
    /\ missingKeys = <<>>

\* the numeric required fields of a record that are present with a value that
\* is not a finite number, by the name they are reported under
C6_BadNumericFields(which, x) ==
    (IF which \in {"pokedex", "items"} /\ Has(x, "id") /\ ~IsFiniteNumber(Get(x, "id"))
     THEN {"id"} ELSE {})
    \cup
    (IF which = "pokedex" /\ IsPlainObject(Get(x, "base"))
     THEN {Dotted("base", k) : k \in {k \in Range(REQUIRED_BASE_KEYS) :
                Has(Get(x, "base"), k) /\ ~IsFiniteNumber(Get(Get(x, "base"), k))}}
     ELSE {})

\* C6: a numeric required field is reported whenever its value is not a
\* finite number (a string, NaN, Infinity, -Infinity)
C6_NonFiniteNumbersReported ==
    (returned /\ IsPlainObject(input)) =>
        \A name \in C6_BadNumericFields(validator, input) : Includes(missingKeys, name)

\* the compound fields: the ones whose sub-fields a validator checks
Containers == {"name", "base", "profile"}

\* every key of every required-key table
AllKeys ==
    UNION {Range(keys) :
             keys \in {REQUIRED_POKEMON_KEYS, REQUIRED_NAME_KEYS_POKEDEX,
                       REQUIRED_BASE_KEYS, REQUIRED_PROFILE_KEYS,
                       REQUIRED_MOVE_KEYS, REQUIRED_NAME_KEYS_MOVES,
                       REQUIRED_ITEM_KEYS, REQUIRED_NAME_KEYS_ITEMS,
                       REQUIRED_TYPE_KEYS}}

\* the dotted entries a list holds under one container
SubEntries(list, container) ==
    {i \in 1..Len(list) : list[i] \in {Dotted(container, k) : k \in AllKeys}}

\* every entry of a list is a required key or container.key
EntriesAreKeysOrDotted(list) ==
    \A i \in 1..Len(list) :
        \/ list[i] \in AllKeys
        \/ \E c \in Containers : i \in SubEntries(list, c)

\* C11: a returned list never holds both a compound field's own name and
\* one of its dotted sub-fields: "name" with no "name.*" entry, "base" with
\* no "base.*" entry, "profile" with no "profile.*" entry
C11_ContainerOrSubFieldsNeverBoth ==
    returned =>
        /\ EntriesAreKeysOrDotted(missingKeys)
        /\ \A c \in Containers :
              Includes(missingKeys, c) => SubEntries(missingKeys, c) = {}

\* a Pokemon whose name is not an object (reported as "name") and whose
\* base is an object with a failing stat (reported as "base.HP" alone)
C11_Witness ==
    /\ returned
    /\ validator = "pokedex"
    /\ IsPlainObject(input)
    /\ Has(input, "name")
    /\ NotAContainer(input, "name")
    /\ ~NotAContainer(input, "base")
    /\ Includes(missingKeys, "name")
    /\ SubEntries(missingKeys, "name") = {}
    /\ Includes(missingKeys, "base.HP")
    /\ ~Includes(missingKeys, "base")

----------------------------------------------------------------------------
(* The input files *)

\* readFileSync throws (no such file, no permission)
Unreadable == [k |-> "unreadable"]
\* JSON.parse throws a SyntaxError
Malformed == [k |-> "malformed"]
\* the file holds the JSON text of this value
Json(value) == [k |-> "json", value |-> value]
\* the program reads no such file
NoFile == [k |-> "none"]

\* a character outside the Basic Multilingual Plane: two UTF-16 code units
Astral == "U+1F600"

\* edits that give the datasets of a run their failing records
RunEdits ==
    {[c |-> "", k |-> "id", val |-> Absent],
     [c |-> "", k |-> "english", val |-> Seven],
     [c |-> "", k |-> "type", val |-> Str(<<"b">>)],
     [c |-> "name", k |-> "english", val |-> Blank]}

\* the records the dataset files of a run are made of
RunRecords(which) ==
    {Conforming(which), Null}
    \cup {ApplyEdit(Conforming(which), e) : e \in RunEdits}

DatasetFiles(which) ==
    {Unreadable, Malformed, Json(Null), Json(Seven), Json(EmptyObj),
     Json(Str(<<"a", Astral>>))}
    \cup {Json(Arr(q)) : q \in SeqsUpTo(RunRecords(which), MaxRecords)}

\* an element of the type list: a type record named n, or something else
TypeNamed(n) == Set(ConformingType, "english", n)

TypeListElems == {TypeNamed(A), Seven, Null}

TypeListFiles ==
    {Unreadable, Malformed, Json(EmptyObj), Json(A)}
    \cup {Json(Arr(q)) : q \in SeqsUpTo(TypeListElems, MaxRecords)}

Clock == {0, 1}

----------------------------------------------------------------------------
(* main() of each program *)

\* readJson: JSON.parse(readFileSync(filePath, 'utf-8')) returns a value
ReadJsonReturns(file) == file.k = "json"

\* the length property of an array, or of a string in UTF-16 code units
RECURSIVE CodeUnits(_)
CodeUnits(chars) ==
    IF chars = <<>> THEN 0
    ELSE (IF Head(chars) = Astral THEN 2 ELSE 1) + CodeUnits(Tail(chars))

Length(x) == IF x.t = "array" THEN Len(x.v) ELSE CodeUnits(x.v)

\* for...of needs an iterable: an array or a string
Iterable(x) == x.t \in {"array", "string"}

\* what for...of yields: the elements, or the string's code points
Elements(x) ==
    IF x.t = "array" THEN x.v ELSE [i \in 1..Len(x.v) |-> Str(<<x.v[i]>>)]

\* types.map((t) => t.english) throws unless types is an array without null
MapEnglishThrows(types) ==
    IF types.t # "array"
    THEN TRUE
    ELSE \E i \in 1..Len(types.v) : types.v[i].t = "null"

\* new Set(types.map((t) => t.english))
EnglishNames(types) == {Get(types.v[i], "english") : i \in 1..Len(types.v)}

\* the name of a failure descriptor: record.name.english when it is a string
NameEnglish(record) ==
    IF /\ TypeOf(record) = "object" /\ record.t # "null"
       /\ Has(record, "name")
       /\ TypeOf(Get(record, "name")) = "object" /\ Get(record, "name").t # "null"
       /\ Has(Get(record, "name"), "english")
       /\ Get(Get(record, "name"), "english").t = "string"
    THEN Get(Get(record, "name"), "english")
    ELSE Undefined

\* the id of a failure descriptor: record.id when it has the type, else 'unknown'
IdOrUnknown(record, type) ==
    IF /\ TypeOf(record) = "object" /\ record.t # "null"
       /\ Has(record, "id")
       /\ Get(record, "id").t = type
    THEN Get(record, "id")
    ELSE Str(<<"u", "n", "k", "n", "o", "w", "n">>)

\* the object pushed onto failures
Descriptor(which, record, keys) ==
    CASE which \in {"pokedex", "items"} ->
            [id |-> IdOrUnknown(record, "number"), name |-> NameEnglish(record),
             missingKeys |-> keys]
      [] which = "moves" ->
            [id |-> IdOrUnknown(record, "string"), name |-> NameEnglish(record),
             missingKeys |-> keys]
      [] which = "types" ->
            [name |-> IF /\ TypeOf(record) = "object" /\ record.t # "null"
                         /\ Has(record, "english")
                         /\ Get(record, "english").t = "string"
                      THEN Get(record, "english")
                      ELSE Undefined,
             missingKeys |-> keys]

PushFront(list, d) == <<d>> \o list

\* failures.push(d)
Push(list, d) == Append(list, d)

\* the loop body: validate, and push a descriptor when the list is not empty
Collect(which, list, record, allowed) ==
    LET keys == Validate(which, record, allowed)
    IN  IF Len(keys) > 0 THEN Push(list, Descriptor(which, record, keys)) ELSE list

\* the loop of main as a function of the records: the failures array it leaves
RECURSIVE CollectAll(_, _, _, _)
CollectAll(which, list, records, allowed) ==
    IF records = <<>>
    THEN list
    ELSE CollectAll(which, Collect(which, list, Head(records), allowed),
                    Tail(records), allowed)

\* JSON.stringify of a value of a descriptor: a non-finite number becomes null
StringifyValue(x) ==
    IF x.t = "number" /\ x.v \in {"NaN", "Infinity", "-Infinity"} THEN Null ELSE x

\* JSON.stringify of a descriptor: an undefined name is left out
StringifyFailure(d) ==
    LET named == "name" \in DOMAIN d /\ d.name.t # "undefined"
        keys == {k \in DOMAIN d : k # "name" \/ named}
    IN  [k \in keys |-> IF k = "missingKeys" THEN d[k] ELSE StringifyValue(d[k])]

\* JSON.stringify(results, null, 2); total and withMissingKeys stand for the
\* per-dataset keys (totalPokemon, pokemonWithMissingKeys, ...)
Stringify(results) ==
    [timestamp |-> results.timestamp,
     total |-> results.total,
     withMissingKeys |-> results.withMissingKeys,
     failures |-> [i \in 1..Len(results.failures) |->
                      StringifyFailure(results.failures[i])]]

\* the two console.log lines of a failure
FailureLines(which, d) ==
    << IF which = "types"
       THEN [line |-> "Type", name |-> d.name, shown |-> Truthy(d.name)]
       ELSE [line |-> "ID", id |-> d.id, name |-> d.name, shown |-> Truthy(d.name)],
       [line |-> "Missing keys", keys |-> d.missingKeys] >>

RECURSIVE Flatten(_)
Flatten(lists) ==
    IF lists = <<>> THEN <<>> ELSE Head(lists) \o Flatten(Tail(lists))

\* an uncaught exception ends the process with a non-zero status
Throw ==
    /\ pc' = "crashed"
    /\ exitCode' = 1

Init ==
    /\ validator \in Validators
    /\ files \in [dataset : DatasetFiles(validator),
                  types : IF validator = "moves" THEN TypeListFiles ELSE {NoFile}]
    /\ pc = "start"
    /\ data = Undefined
    /\ typeList = Undefined
    /\ allowedTypes = {}
    /\ idx = 0
    /\ failures = <<>>
    /\ report = <<>>
    /\ stdout = <<>>
    /\ exitCode = 0
    /\ now = 0
    /\ input = Undefined
    /\ returned = FALSE
    /\ missingKeys = <<>>

valVars == <<input, returned, missingKeys>>

\* const pokedex = readJson(pokedexPath) returns
ReadDataset ==
    /\ pc = "start"
    /\ ReadJsonReturns(files.dataset)
    /\ data' = files.dataset.value
    /\ pc' = IF validator = "moves" THEN "readTypes" ELSE "loop"
    /\ UNCHANGED <<validator, files, typeList, allowedTypes, idx, failures, report,
                   stdout, exitCode, now, valVars>>

\* readJson throws on the dataset file
ReadDatasetThrows ==
    /\ pc = "start"
    /\ ~ReadJsonReturns(files.dataset)
    /\ Throw
    /\ UNCHANGED <<validator, files, data, typeList, allowedTypes, idx, failures,
                   report, stdout, now, valVars>>

\* moves: const types = readJson(typesPath) returns
ReadTypes ==
    /\ pc = "readTypes"
    /\ ReadJsonReturns(files.types)
    /\ typeList' = files.types.value
    /\ pc' = "allowedTypes"
    /\ UNCHANGED <<validator, files, data, allowedTypes, idx, failures, report,
                   stdout, exitCode, now, valVars>>

ReadTypesFallsBack ==
    /\ pc = "readTypes"
    /\ ~ReadJsonReturns(files.types)
    /\ typeList' = Arr(<<>>)
    /\ pc' = "allowedTypes"
    /\ UNCHANGED <<validator, files, data, allowedTypes, idx, failures, report,
                   stdout, exitCode, now, valVars>>

\* moves: readJson throws on the type-list file
ReadTypesThrows ==
    /\ pc = "readTypes"
    /\ ~ReadJsonReturns(files.types)
    /\ Throw
    /\ UNCHANGED <<validator, files, data, typeList, allowedTypes, idx, failures,
                   report, stdout, now, valVars>>

\* moves: const allowedTypes = new Set(types.map((t) => t.english))
BuildAllowedTypes ==
    /\ pc = "allowedTypes"
    /\ ~MapEnglishThrows(typeList)
    /\ allowedTypes' = EnglishNames(typeList)
    /\ pc' = "loop"
    /\ UNCHANGED <<validator, files, data, typeList, idx, failures, report, stdout,
                   exitCode, now, valVars>>

\* moves: types.map throws a TypeError
BuildAllowedTypesThrows ==
    /\ pc = "allowedTypes"
    /\ MapEnglishThrows(typeList)
    /\ Throw
    /\ UNCHANGED <<validator, files, data, typeList, allowedTypes, idx, failures,
                   report, stdout, now, valVars>>

\* for (const x of dataset) on a value that is not iterable: a TypeError
LoopThrows ==
    /\ pc = "loop"
    /\ ~Iterable(data)
    /\ Throw
    /\ UNCHANGED <<validator, files, data, typeList, allowedTypes, idx, failures,
                   report, stdout, now, valVars>>

\* one iteration of the loop
ValidateNext ==
    /\ pc = "loop"
    /\ Iterable(data)
    /\ idx < Len(Elements(data))
    /\ failures' = Collect(validator, failures, Elements(data)[idx + 1], allowedTypes)
    /\ idx' = idx + 1
    /\ UNCHANGED <<validator, files, pc, data, typeList, allowedTypes, report, stdout,
                   exitCode, now, valVars>>

WriteReportOnFailuresOnly ==
    /\ pc = "loop"
    /\ Iterable(data)
    /\ idx = Len(Elements(data))
    /\ \E t \in Clock :
          /\ now' = t
          /\ report' = IF failures = <<>> THEN report
                       ELSE Append(report, Stringify([timestamp |-> t,
                                                      total |-> Length(data),
                                                      withMissingKeys |-> Len(failures),
                                                      failures |-> failures]))
    /\ pc' = "print"
    /\ UNCHANGED <<validator, files, data, typeList, allowedTypes, idx, failures,
                   stdout, exitCode, valVars>>

\* the loop is over: build results and writeFileSync(outputPath, ...)
WriteReport ==
    /\ pc = "loop"
    /\ Iterable(data)
    /\ idx = Len(Elements(data))
    /\ \E t \in Clock :
          /\ now' = t
          /\ report' = Append(report, Stringify([timestamp |-> t,
                                                 total |-> Length(data),
                                                 withMissingKeys |-> Len(failures),
                                                 failures |-> failures]))
    /\ pc' = "print"
    /\ UNCHANGED <<validator, files, data, typeList, allowedTypes, idx, failures,
                   stdout, exitCode, valVars>>

\* if (failures.length === 0): two lines, then return
PrintOk ==
    /\ pc = "print"
    /\ failures = <<>>
    /\ stdout' = stdout \o <<[line |-> "OK", count |-> Length(data)],
                             [line |-> "Results written to"]>>
    /\ pc' = "done"
    /\ UNCHANGED <<validator, files, data, typeList, allowedTypes, idx, failures,
                   report, exitCode, now, valVars>>

\* the count line, the path line and two lines per failure
PrintFailures ==
    /\ pc = "print"
    /\ failures # <<>>
    /\ stdout' = stdout \o <<[line |-> "Found", count |-> Len(failures)],
                             [line |-> "Results written to"]>>
                        \o Flatten([i \in 1..Len(failures) |->
                                       FailureLines(validator, failures[i])])
    /\ pc' = "exitCode"
    /\ UNCHANGED <<validator, files, data, typeList, allowedTypes, idx, failures,
                   report, exitCode, now, valVars>>

\* process.exitCode = 1
SetExitCode ==
    /\ pc = "exitCode"
    /\ exitCode' = 1
    /\ pc' = "done"
    /\ UNCHANGED <<validator, files, data, typeList, allowedTypes, idx, failures,
                   report, stdout, now, valVars>>

Next ==
    \/ ReadDataset
    \/ ReadDatasetThrows
    \/ ReadTypes
    \/ ReadTypesThrows
    \/ BuildAllowedTypes
    \/ BuildAllowedTypesThrows
    \/ LoopThrows
    \/ ValidateNext
    \/ WriteReport
    \/ PrintOk
    \/ PrintFailures
    \/ SetExitCode

Spec == Init /\ [][Next]_vars

----------------------------------------------------------------------------
(* Claims about the runs, checked under Spec *)

\* the dataset file holds a JSON array, as main's readJson<T[]> declares
DatasetLoads ==
    /\ files.dataset.k = "json"
    /\ files.dataset.value.t = "array"

\* moves: the type list is an array whose entries can be read (none is null),
\* as main's readJson<Array<{ english: string }>> declares
TypeListLoads ==
    /\ files.types.k = "json"
    /\ files.types.value.t = "array"
    /\ \A i \in 1..Len(files.types.value.v) : files.types.value.v[i].t # "null"

InputsLoad == DatasetLoads /\ (validator = "moves" => TypeListLoads)

\* an input file cannot be read or parsed
InputFails ==
    \/ files.dataset.k \in {"unreadable", "malformed"}
    \/ validator = "moves" /\ files.types.k \in {"unreadable", "malformed"}

RecordsOf == files.dataset.value.v

ResultOf(i) == Validate(validator, RecordsOf[i], allowedTypes)

\* the indices of the failing records, in input order
FailingOf ==
    SelectSeq([i \in 1..Len(RecordsOf) |-> i], LAMBDA i : ResultOf(i) # <<>>)

ReportWritten == Len(report) = 1

\* the allow-list sets a type list can give
AllowSets == SUBSET (TypeNames \cup {Undefined})

\* what a run leaves behind, but for the timestamp
Outcome ==
    [total |-> report[1].total,
     withMissingKeys |-> report[1].withMissingKeys,
     failures |-> report[1].failures,
     exitCode |-> exitCode]

\* the same for a run over the records with the allow-list set S
OutcomeWith(S) ==
    LET list == CollectAll("moves", <<>>, RecordsOf, S)
    IN  [total |-> Len(RecordsOf),
         withMissingKeys |-> Len(list),
         failures |-> [i \in 1..Len(list) |-> StringifyFailure(list[i])],
         exitCode |-> IF list = <<>> THEN 0 ELSE 1]

\* C7: move validation does not depend on the allow-list: validateMove
\* returns the same list under every allow-list set, and a finished run has
\* the counts, failures and exit status of a run with any other allow-list
C7_AllowListNeverApplied ==
    (validator = "moves" /\ InputsLoad /\ pc \in {"loop", "print", "exitCode", "done"}) =>
        \A S \in AllowSets :
            /\ \A i \in 1..Len(RecordsOf) :
                  validateMove(RecordsOf[i], allowedTypes) = validateMove(RecordsOf[i], S)
            /\ pc = "done" => Outcome = OutcomeWith(S)

\* a finished moves run that accepted a move whose type is not in its allow-list
C7_Witness ==
    /\ validator = "moves"
    /\ InputsLoad
    /\ pc = "done"
    /\ allowedTypes # {}
    /\ \E i \in 1..Len(RecordsOf) :
          /\ ResultOf(i) = <<>>
          /\ Get(RecordsOf[i], "type") \notin allowedTypes

C9_ReportMatchesRecords ==
    (InputsLoad /\ ReportWritten) =>
        LET doc == report[1]
        IN  /\ doc.total = Len(RecordsOf)
            /\ doc.withMissingKeys = Len(doc.failures)
            /\ Len(doc.failures) = Len(FailingOf)
            /\ \A j \in 1..Len(FailingOf) :
                  /\ doc.failures[j].missingKeys = ResultOf(FailingOf[j])
                  /\ doc.failures[j] =
                        StringifyFailure(Descriptor(validator, RecordsOf[FailingOf[j]],
                                                    ResultOf(FailingOf[j])))

\* a report over a conforming record followed by two different failing ones
C9_Witness ==
    /\ InputsLoad
    /\ ReportWritten
    /\ Len(RecordsOf) >= 2
    /\ ResultOf(1) # <<>>
    /\ ResultOf(2) # <<>>
    /\ ResultOf(1) # ResultOf(2)
    /\ Len(report[1].failures) = 2

\* C10: when an input file cannot be read or parsed (for moves, the type
\* list too) the run ends abnormally with no record validated, no report and
\* no summary; a failing record never aborts a run: every record is
\* validated and the report is written
C10_LoadFailureAbortsFailingRecordDoesNot ==
    /\ InputFails =>
          /\ idx = 0 /\ failures = <<>> /\ report = <<>> /\ stdout = <<>>
          /\ pc \in {"start", "readTypes", "crashed"}
          /\ pc = "crashed" => exitCode # 0
          /\ pc # "crashed" =>
                ENABLED (ReadDataset \/ ReadDatasetThrows \/ ReadTypes \/ ReadTypesThrows)
    /\ InputsLoad =>
          /\ pc # "crashed"
          /\ idx <= Len(RecordsOf)
          /\ Len(failures) = Len(SelectSeq(FailingOf, LAMBDA i : i <= idx))
          /\ pc \in {"print", "exitCode", "done"} =>
                (idx = Len(RecordsOf) /\ ReportWritten)

\* a moves run whose dataset loaded and whose type list could not be read
C10_Witness ==
    /\ validator = "moves"
    /\ DatasetLoads
    /\ Len(RecordsOf) > 0
    /\ files.types.k = "unreadable"
    /\ pc = "crashed"
    /\ idx = 0
    /\ report = <<>>

====
